---- MODULE Spec2Model ----
(***************************************************************************)
(* Model of the telegram-seo-bot core: the JustMagicTools executor         *)
(* (src/justmagic_tools.py) and the /api/chat agent loop with its          *)
(* in-memory conversation store (src/main.py).                             *)
(*                                                                         *)
(* Python values are modelled with their own types: a dict is a function   *)
(* from its keys, a list is a sequence, an int is an integer, a str is a   *)
(* string.  The arguments of a tool are a function whose domain is the set *)
(* of argument names the caller supplied, so that args.get(k, d) and the   *)
(* KeyError of args[k] are both expressible.                               *)
(***************************************************************************)
EXTENDS Integers, Sequences, FiniteSets, TLC

VARIABLES
    conversations,    \* main.py:97  dict conv_id -> list object (a heap ref)
    heap,             \* the list objects conversations and runs refer to
    pc,               \* per chat run: position in chat()
    conv_id,          \* per run: local conv_id
    history,          \* per run: local `history` (a heap ref, 0 = unbound)
    tool_uses,        \* per run: tool_use blocks of the current response
    tool_results,     \* per run: tool_result blocks built so far
    tool_calls_made,  \* per run: audit entries
    reply,            \* per run: the ChatResponse or the HTTP error
    appended,         \* ghost: per conv id, every turn appended since creation
    calls,            \* ghost: per call of execute() by a run, the tool_use id and
                      \* the number of requests the call posted
    run_log,          \* ghost: per active run, the store's history at its start,
                      \* the turns it appended, and whether it ran undisturbed
    turns,            \* number of tool_use blocks the model has issued so far (bounded)
    clears,           \* number of clear requests served so far (bounded)
    call,             \* executor harness: the call under execution
    outcome           \* executor harness: what the call produced

vars == <<conversations, heap, pc, conv_id, history, tool_uses, tool_results,
          tool_calls_made, reply, appended, calls, run_log, turns, clears,
          call, outcome>>

chatVars == <<conversations, heap, pc, conv_id, history, tool_uses,
              tool_results, tool_calls_made, reply, appended, calls, run_log,
              turns, clears>>

execVars == <<call, outcome>>

-----------------------------------------------------------------------------
(* Python helpers *)

Min(a, b) == IF a < b THEN a ELSE b
Max(a, b) == IF a > b THEN a ELSE b

\* {} : the empty dict
EmptyDict == <<>>

\* args.get(k, d)
Get(args, k, d) == IF k \in DOMAIN args THEN args[k] ELSE d

\* bool(args.get(k)) for a str, bool, int and list valued argument
TruthyStr(args, k)  == k \in DOMAIN args /\ args[k] # ""
TruthyBool(args, k) == k \in DOMAIN args /\ args[k]
TruthyInt(args, k)  == k \in DOMAIN args /\ args[k] # 0
TruthyList(args, k) == k \in DOMAIN args /\ args[k] # <<>>

\* sep.join(list)
RECURSIVE Join(_, _)
Join(sep, list) ==
    IF list = <<>> THEN ""
    ELSE IF Len(list) = 1 THEN list[1]
    ELSE list[1] \o sep \o Join(sep, Tail(list))

\* data[:n] for any integer n (a negative n counts from the end)
SliceTo(list, n) ==
    IF n >= 0 THEN SubSeq(list, 1, Min(n, Len(list)))
    ELSE SubSeq(list, 1, Max(Len(list) + n, 0))

\* data[-n:] for n > 0
LastN(list, n) ==
    IF Len(list) <= n THEN list ELSE SubSeq(list, Len(list) - n + 1, Len(list))

-----------------------------------------------------------------------------
(* JustMagicTools: the remote task API client and the tool executor *)

API_KEY == "apikey-1"

\* What a call produced: a returned value or a raised exception, and the
\* requests it posted to API_URL on the way.
Returned(value, reqs) == [raised |-> "none", result |-> value, requests |-> reqs]
Raised(exc, reqs)     == [raised |-> exc, requests |-> reqs]

\* The wire fields whose Python value is an int; every other field is a str.
IntFields == {"limit", "offset", "tid", "ya_lr", "ya_lrws", "s_std", "s_q",
              "iter", "f_rus", "f_gall", "min_pwr", "base", "deep", "justask"}

\* files = {k: (None, str(v)) for k, v in data.items()}
Files(data) ==
    [k \in DOMAIN data |-> IF k \in IntFields THEN ToString(data[k]) ELSE data[k]]

\* data = {"action": action, "apikey": self.api_key}; data.update(params)
FormData(action, params) == params @@ [action |-> action, apikey |-> API_KEY]

\* response.json() of an answered request: the remote system's JSON object.
\* A cost estimate (justask) carries no task id.
ResponseJson(files, net) ==
    IF net = "api_error" THEN [err |-> "api_error", errtxt |-> "remote error"]
    ELSE IF files.action = "put_task" /\ "justask" \notin DOMAIN files
         THEN [err |-> 0, tid |-> 7]
    ELSE IF files.action = "put_task" THEN [err |-> 0, cost |-> 3]
    ELSE [err |-> 0, action |-> files.action]

\* bug: no try/except around the post, the exception escapes
_request_Unguarded(action, params, remote) ==
    LET files == Files(FormData(action, params)) IN
    IF remote.net \in {"transport_error", "parse_error"}
    THEN Raised("Exception", <<files>>)
    ELSE Returned(ResponseJson(files, remote.net), <<files>>)

\* remote.net for a JSON call: "ok", "api_error" (an error object), and the
\* two ways line 244-245 raise: "transport_error" (post) and "parse_error"
\* (response.json()).
_request(action, params, remote) ==
    LET files == Files(FormData(action, params)) IN
    IF remote.net \in {"transport_error", "parse_error"}
    THEN Returned([err |-> "request_error", errtxt |-> remote.net], <<files>>)
    ELSE Returned(ResponseJson(files, remote.net), <<files>>)

\* Returns content (None as [kind |-> "None"]) and the request posted.
_request_binary(action, params, remote) ==
    LET files == Files(FormData(action, params)) IN
    IF remote.net = "transport_error"
    THEN [content |-> [kind |-> "None"], requests |-> <<files>>]
    ELSE [content |-> [kind |-> remote.net, table |-> remote.table],
          requests |-> <<files>>]

\* remote.net for the binary call names what the payload is:
\*   "json_error"   a JSON object with a truthy err
\*   "gzip"         gzip of UTF-8 tab-separated text that parses to remote.table
\*   "text"         UTF-8 tab-separated text, not gzip, parsing to remote.table
\*   "binary"       bytes that are neither gzip nor UTF-8
\*   "gzip_binary"  gzip of bytes that are not UTF-8
_get_task_csv(tid, remote) ==
    LET bin == _request_binary("get_task",
                   [tid |-> tid, mode |-> "csv", system |-> "unix"], remote)
        content == bin.content
    IN  IF content.kind = "None" THEN Returned(<<>>, bin.requests)
        ELSE IF content.kind = "json_error" THEN Returned(<<>>, bin.requests)
        ELSE IF content.kind \in {"gzip", "text"}
             THEN Returned(content.table, bin.requests)
        ELSE Raised("UnicodeDecodeError", bin.requests)

_put_task(task_data, just_ask, remote) ==
    LET params == IF just_ask THEN ("justask" :> 1) @@ task_data ELSE task_data
    IN  _request("put_task", params, remote)

\* k: v only when cond holds
Field(cond, k, v) == IF cond THEN k :> v ELSE EmptyDict

\* lines of the text analyzer: one url<TAB>query per (page, query)
RECURSIVE AnalyzerLines(_)
AnalyzerLines(pages) ==
    IF pages = <<>> THEN <<>>
    ELSE LET p == pages[1] IN
         [i \in 1..Len(p["queries"]) |-> p["url"] \o "\t" \o p["queries"][i]]
            \o AnalyzerLines(Tail(pages))

\* bug: a page without queries gets no line
MarkerLines_SkipsBarePages(pages) ==
    LET withQueries == SelectSeq(pages, LAMBDA p : TruthyList(p, "queries")) IN
    [i \in 1..Len(withQueries) |->
        withQueries[i]["url"] \o "\t" \o Join("\t", withQueries[i]["queries"])]

\* lines of the marker tool: one per page
MarkerLines(pages) ==
    [i \in 1..Len(pages) |->
        pages[i]["url"] \o
          (IF TruthyList(pages[i], "queries")
           THEN "\t" \o Join("\t", pages[i]["queries"]) ELSE "")]

\* a page of args["pages"] lacks a key the text analyzer indexes
PageKeyError(pages) ==
    \E i \in 1..Len(pages) :
        \/ "queries" \notin DOMAIN pages[i]
        \/ pages[i]["queries"] # <<>> /\ "url" \notin DOMAIN pages[i]
\* a page lacks the key the marker tool indexes
MarkerKeyError(pages) == \E i \in 1..Len(pages) : "url" \notin DOMAIN pages[i]


\* TOOLS_DEFINITIONS: the name and the "required" list of each entry
TOOLS_DEFINITIONS ==
    <<[name |-> "justmagic_info", required |-> {}],
      [name |-> "justmagic_list_tasks", required |-> {}],
      [name |-> "justmagic_get_task", required |-> {"tid"}],
      [name |-> "justmagic_download_result", required |-> {"tid"}],
      [name |-> "justmagic_cluster", required |-> {"queries"}],
      [name |-> "justmagic_text_analyzer", required |-> {"pages"}],
      [name |-> "justmagic_aquarelle", required |-> {"keyword", "text"}],
      [name |-> "justmagic_aquarelle_generator", required |-> {"queries"}],
      [name |-> "justmagic_wordstat_frequency", required |-> {"queries"}],
      [name |-> "justmagic_suggestions_parser", required |-> {"queries"}],
      [name |-> "justmagic_thematic_classifier", required |-> {"queries"}],
      [name |-> "justmagic_markers_online", required |-> {"pages", "base_queries"}],
      [name |-> "justmagic_expand_semantics", required |-> {"queries"}],
      [name |-> "justmagic_regex_search", required |-> {"pattern"}]>>

\* the names the catalog advertises
CatalogNames == {TOOLS_DEFINITIONS[i].name : i \in 1..Len(TOOLS_DEFINITIONS)}

\* the "required" list of a catalog name
Required(name) ==
    TOOLS_DEFINITIONS[CHOOSE i \in 1..Len(TOOLS_DEFINITIONS) :
                          TOOLS_DEFINITIONS[i].name = name].required

\* The names execute() dispatches on, in the order of its branches.
ToolNames == <<"justmagic_info", "justmagic_list_tasks", "justmagic_get_task",
               "justmagic_download_result", "justmagic_cluster",
               "justmagic_text_analyzer", "justmagic_aquarelle",
               "justmagic_aquarelle_generator", "justmagic_wordstat_frequency",
               "justmagic_suggestions_parser", "justmagic_thematic_classifier",
               "justmagic_markers_online", "justmagic_expand_semantics",
               "justmagic_regex_search">>

Dispatched == {ToolNames[i] : i \in 1..Len(ToolNames)}

\* bug: the limit is sent as supplied
ListTasksParams_Unclamped(args) ==
    [limit |-> Get(args, "limit", 10), offset |-> Get(args, "offset", 0)]

\* line 302-305
ListTasksParams(args) ==
    [limit |-> Min(Get(args, "limit", 10), 100), offset |-> Get(args, "offset", 0)]

\* bug: ya_lr is sent whether or not google_lr is
ClusterRegion_AlwaysYandex(args) ==
    (IF "search_engine" \in DOMAIN args /\ args["search_engine"] = "google"
        /\ TruthyStr(args, "google_lr")
     THEN "google_lr" :> args["google_lr"] ELSE EmptyDict)
    @@ ("ya_lr" :> Get(args, "region", 213))

\* line 333-336
ClusterRegion(args) ==
    IF "search_engine" \in DOMAIN args /\ args["search_engine"] = "google"
       /\ TruthyStr(args, "google_lr")
    THEN "google_lr" :> args["google_lr"]
    ELSE "ya_lr" :> Get(args, "region", 213)

\* bug: label is sent whenever the argument is present, empty or not
ClusterTask_LabelWhenPresent(args) ==
    [task |-> "grp_onl", data |-> Join("\n", args["queries"]),
     search_engine |-> Get(args, "search_engine", "yandex"),
     lang |-> Get(args, "lang", "ru")]
    @@ ClusterRegion(args)
    @@ Field(TruthyBool(args, "collect_frequency"), "s_std", 1)
    @@ Field("label" \in DOMAIN args, "label", Get(args, "label", ""))
    @@ Field(TruthyStr(args, "domain"), "domain", Get(args, "domain", ""))

\* bug: the queries are joined by a space
ClusterTask_SpaceJoined(args) ==
    [task |-> "grp_onl", data |-> Join(" ", args["queries"]),
     search_engine |-> Get(args, "search_engine", "yandex"),
     lang |-> Get(args, "lang", "ru")]
    @@ ClusterRegion(args)
    @@ Field(TruthyBool(args, "collect_frequency"), "s_std", 1)
    @@ Field(TruthyStr(args, "label"), "label", Get(args, "label", ""))
    @@ Field(TruthyStr(args, "domain"), "domain", Get(args, "domain", ""))

\* line 327-343
ClusterTask(args) ==
    [task |-> "grp_onl", data |-> Join("\n", args["queries"]),
     search_engine |-> Get(args, "search_engine", "yandex"),
     lang |-> Get(args, "lang", "ru")]
    @@ ClusterRegion(args)
    @@ Field(TruthyBool(args, "collect_frequency"), "s_std", 1)
    @@ Field(TruthyStr(args, "label"), "label", Get(args, "label", ""))
    @@ Field(TruthyStr(args, "domain"), "domain", Get(args, "domain", ""))

\* line 353-358
TextAnalyzerTask(args) ==
    [task |-> "txt_anlz", data |-> Join("\n", AnalyzerLines(args["pages"])),
     search_engine |-> Get(args, "search_engine", "yandex"),
     ya_lr |-> Get(args, "region", 213)]

\* line 363-369
AquarelleTask(args) ==
    [task |-> "aqua", key |-> args["keyword"], data |-> args["text"],
     search_engine |-> Get(args, "search_engine", "yandex"),
     lang |-> Get(args, "lang", "ru")]

\* line 374-379
AquarelleGeneratorTask(args) ==
    [task |-> "aqua_gen", data |-> Join("\n", args["queries"]),
     search_engine |-> Get(args, "search_engine", "yandex"),
     lang |-> Get(args, "lang", "ru")]

\* line 384-396
WordstatTask(args) ==
    [task |-> "wsfreq", data |-> Join("\n", args["queries"]),
     device |-> Get(args, "device", "all")]
    @@ Field(TruthyInt(args, "region"), "ya_lrws", Get(args, "region", 0))
    @@ Field(TruthyStr(args, "label"), "label", Get(args, "label", ""))
    @@ Field(Get(args, "s_std", TRUE), "s_std", 1)
    @@ Field(TruthyBool(args, "s_q"), "s_q", 1)

\* line 402-410
SuggestionsTask(args) ==
    [task |-> "sug_par", data |-> Join("\n", args["queries"]),
     ya_lr |-> Get(args, "region", 213), lang |-> Get(args, "lang", "ru"),
     iter |-> Min(Max(Get(args, "iterations", 1), 1), 3)]
    @@ Field(TruthyBool(args, "add_russian_letters"), "f_rus", 1)

\* line 416-421
ClassifierTask(args) ==
    [task |-> "temakl", data |-> Join("\n", args["queries"])]
    @@ Field(TruthyBool(args, "show_all_categories"), "f_gall", 1)

\* line 427-438
MarkersTask(args) ==
    [task |-> "mark_onl", data |-> Join("\n", MarkerLines(args["pages"])),
     data_base |-> Join("\n", args["base_queries"]),
     ya_lr |-> Get(args, "region", 213), mode |-> Get(args, "mode", "hard"),
     min_pwr |-> Min(Max(Get(args, "min_power", 3), 3), 9)]

\* bug: the depth has no upper bound
ExpandTask_NoUpperBound(args) ==
    [task |-> "grp_deep", data |-> Join("\n", args["queries"]),
     base |-> Get(args, "base", 3),
     deep |-> Max(Get(args, "depth", 1), 0),
     min_pwr |-> Min(Max(Get(args, "min_power", 3), 3), 9)]

\* line 443-449
ExpandTask(args) ==
    [task |-> "grp_deep", data |-> Join("\n", args["queries"]),
     base |-> Get(args, "base", 3),
     deep |-> Min(Max(Get(args, "depth", 1), 0), 9),
     min_pwr |-> Min(Max(Get(args, "min_power", 3), 3), 9)]

\* bug: the branch was copied from the one above and kept its mnemonic
RegexTask_CopiedMnemonic(args) ==
    [task |-> "grp_deep", base |-> Get(args, "base", 3), rexpa |-> args["pattern"]]
    @@ Field(TruthyStr(args, "exclude_pattern"), "rexpd",
             Get(args, "exclude_pattern", ""))

\* line 454-460
RegexTask(args) ==
    [task |-> "rexp", base |-> Get(args, "base", 3), rexpa |-> args["pattern"]]
    @@ Field(TruthyStr(args, "exclude_pattern"), "rexpd",
             Get(args, "exclude_pattern", ""))

\* line 314-323
DownloadResult(args, remote) ==
    LET csv == _get_task_csv(args["tid"], remote)
        max_rows == Get(args, "max_rows", 100)
    IN  IF csv.raised # "none" THEN csv
        ELSE IF csv.result = <<>>
             THEN Returned([err |-> "no_data", errtxt |-> "no data"], csv.requests)
        ELSE Returned([err |-> 0, total_rows |-> Len(csv.result),
                       returned_rows |-> Min(Len(csv.result), max_rows),
                       data |-> SliceTo(csv.result, max_rows)], csv.requests)

\* The args[k] subscripts each branch evaluates before it sends anything.
Subscripted(name) ==
    CASE name \in {"justmagic_get_task", "justmagic_download_result"} -> {"tid"}
      [] name \in {"justmagic_cluster", "justmagic_aquarelle_generator",
                   "justmagic_wordstat_frequency", "justmagic_suggestions_parser",
                   "justmagic_thematic_classifier", "justmagic_expand_semantics"}
            -> {"queries"}
      [] name = "justmagic_text_analyzer" -> {"pages"}
      [] name = "justmagic_aquarelle" -> {"keyword", "text"}
      [] name = "justmagic_markers_online" -> {"pages", "base_queries"}
      [] name = "justmagic_regex_search" -> {"pattern"}
      [] OTHER -> {}

\* The subscript args[k] (or p[k] of a page) of the branch raises KeyError.
KeyErrorIn(name, args) ==
    \/ ~(Subscripted(name) \subseteq DOMAIN args)
    \/ name = "justmagic_text_analyzer" /\ PageKeyError(args["pages"])
    \/ name = "justmagic_markers_online" /\ MarkerKeyError(args["pages"])

\* bug: a name without a branch is passed on to the API as its action
UnknownTool_Forwarded(name) ==
    _request(name, EmptyDict, [net |-> "ok", table |-> <<>>])

\* line 464: no branch matched
UnknownTool(name) ==
    Returned([err |-> "unknown_tool", errtxt |-> "unknown tool: " \o name], <<>>)

\* async def execute(self, name, args)
execute(name, args, remote) ==
    LET just_ask == TruthyBool(args, "just_ask") IN
    IF KeyErrorIn(name, args) THEN Raised("KeyError", <<>>)
    ELSE CASE name = "justmagic_info" -> _request("info", EmptyDict, remote)
      [] name = "justmagic_list_tasks" ->
            _request("list_tasks", ListTasksParams(args), remote)
      [] name = "justmagic_get_task" ->
            _request("get_task",
                [tid |-> args["tid"], mode |-> Get(args, "mode", "info")], remote)
      [] name = "justmagic_download_result" -> DownloadResult(args, remote)
      [] name = "justmagic_cluster" -> _put_task(ClusterTask(args), just_ask, remote)
      [] name = "justmagic_text_analyzer" ->
            _put_task(TextAnalyzerTask(args), just_ask, remote)
      [] name = "justmagic_aquarelle" -> _put_task(AquarelleTask(args), FALSE, remote)
      [] name = "justmagic_aquarelle_generator" ->
            _put_task(AquarelleGeneratorTask(args), just_ask, remote)
      [] name = "justmagic_wordstat_frequency" ->
            _put_task(WordstatTask(args), just_ask, remote)
      [] name = "justmagic_suggestions_parser" ->
            _put_task(SuggestionsTask(args), just_ask, remote)
      [] name = "justmagic_thematic_classifier" ->
            _put_task(ClassifierTask(args), just_ask, remote)
      [] name = "justmagic_markers_online" ->
            _put_task(MarkersTask(args), just_ask, remote)
      [] name = "justmagic_expand_semantics" ->
            _put_task(ExpandTask(args), just_ask, remote)
      [] name = "justmagic_regex_search" ->
            _put_task(RegexTask(args), just_ask, remote)
      [] OTHER -> UnknownTool(name)


-----------------------------------------------------------------------------
(* Bounded inputs of the executor *)

MaxQueries == 2      \* longest query list
MaxPages == 2        \* longest page list
MaxRows == 3         \* most rows of a downloaded table
IntSpan == 11        \* integer arguments range over -2..IntSpan

Words == {"buy shoes", "shoe store"}
QueryLists == UNION {[1..n -> Words] : n \in 0..MaxQueries}
ShortLists == {q \in QueryLists : Len(q) <= 1} \cup {<<"buy shoes", "shoe store">>}
IntArgs == -2..IntSpan
LimitArgs == (-1..2) \cup (99..101) \cup {500}

\* the argument k absent, or present with a value of V
Opt(k, V) == {EmptyDict} \cup {k :> v : v \in V}
\* every union of a dict of A with a dict of B
Both(A, B) == {a @@ b : a \in A, b \in B}

Pages == Both(Opt("url", {"u1"}), Opt("queries", ShortLists))
PageLists == UNION {[1..n -> Pages] : n \in 0..MaxPages}

JustAsk == Opt("just_ask", BOOLEAN)

\* two well-formed lists, used where another argument is the one varied
SomeQueries == <<"buy shoes", "shoe store">>
SomePages == <<[url |-> "u1", queries |-> SomeQueries], [url |-> "u2"]>>

ArgsOf(name) ==
    CASE name = "justmagic_list_tasks" ->
            Both(Opt("limit", LimitArgs), Opt("offset", {0, 20}))
      [] name = "justmagic_get_task" ->
            Both(Opt("tid", {7}), Opt("mode", {"info", "csv"}))
      [] name = "justmagic_download_result" ->
            Both(Opt("tid", {7}), Opt("max_rows", (-2..MaxRows + 1) \cup {100}))
      [] name = "justmagic_cluster" ->
            Both(Opt("queries", {SomeQueries}),
            Both(Opt("search_engine", {"yandex", "google"}),
            Both(Opt("google_lr", {"", "us"}),
            Both(Opt("region", {2}),
            Both(Opt("collect_frequency", BOOLEAN),
            Both(Opt("label", {"", "shoes"}),
            Both(Opt("domain", {"", "shop.ru"}), JustAsk)))))))
            \cup Opt("queries", QueryLists)
      [] name = "justmagic_text_analyzer" ->
            Both(Opt("pages", PageLists), Opt("just_ask", {TRUE}))
            \cup Both({[pages |-> SomePages]}, Both(Opt("region", {2}), JustAsk))
      [] name = "justmagic_aquarelle" ->
            Both(Opt("keyword", {"shoes"}), Both(Opt("text", {"", "some text"}),
                 JustAsk))
      [] name = "justmagic_aquarelle_generator" ->
            Both(Opt("queries", QueryLists), Both(Opt("lang", {"en"}), JustAsk))
      [] name = "justmagic_wordstat_frequency" ->
            Both(Opt("queries", {SomeQueries}),
            Both(Opt("region", {0, 2}),
            Both(Opt("label", {"", "shoes"}),
            Both(Opt("s_std", BOOLEAN),
            Both(Opt("s_q", BOOLEAN), JustAsk)))))
      [] name = "justmagic_suggestions_parser" ->
            Both(Opt("queries", {SomeQueries}),
            Both(Opt("iterations", IntArgs),
            Both(Opt("add_russian_letters", BOOLEAN), JustAsk)))
      [] name = "justmagic_thematic_classifier" ->
            Both(Opt("queries", QueryLists),
            Both(Opt("show_all_categories", BOOLEAN), JustAsk))
      [] name = "justmagic_markers_online" ->
            Both(Opt("pages", PageLists), Opt("base_queries", {SomeQueries}))
            \cup Both({[pages |-> SomePages, base_queries |-> SomeQueries]},
                      Both(Opt("min_power", IntArgs), JustAsk))
      [] name = "justmagic_expand_semantics" ->
            Both(Opt("queries", {SomeQueries}),
            Both(Opt("depth", IntArgs), Opt("min_power", IntArgs)))
      [] name = "justmagic_regex_search" ->
            Both(Opt("pattern", {"^buy"}),
            Both(Opt("exclude_pattern", {"", "store"}), JustAsk))
      [] OTHER -> Both(Opt("tid", {7}), Opt("queries", ShortLists))

\* names the model may send that execute() has no branch for
UnknownNames == {"justmagic_delete_task", "cluster", ""}

\* how the remote system answers a JSON call
JsonRemotes ==
    {[net |-> n, table |-> <<>>] :
        n \in {"ok", "api_error", "transport_error", "parse_error"}}

Rows == {<<"phrase", "10">>, <<"other">>}
Tables == UNION {[1..n -> Rows] : n \in 0..MaxRows}

\* how the remote system answers the binary call of download_result
BinaryRemotes ==
    {[net |-> n, table |-> <<>>] :
        n \in {"transport_error", "json_error", "binary", "gzip_binary"}}
    \cup {[net |-> n, table |-> t] : n \in {"gzip", "text"}, t \in Tables}

RemotesOf(name) ==
    IF name = "justmagic_download_result" THEN BinaryRemotes ELSE JsonRemotes

CallsOf(n) ==
    {[via |-> "execute", name |-> n, args |-> a, remote |-> r] :
        a \in ArgsOf(n), r \in RemotesOf(n)}

ExecuteCalls == UNION {CallsOf(n) : n \in Dispatched \cup UnknownNames}

\* requests of the pass-through routes /api/tasks, /api/tasks/{tid}, /api/account
ApiCalls ==
    {[via |-> "api", name |-> "list_tasks", args |-> a, remote |-> r,
      configured |-> c] : a \in Opt("limit", LimitArgs), r \in JsonRemotes,
                          c \in BOOLEAN}
    \cup {[via |-> "api", name |-> "get_task", args |-> [tid |-> 7],
           remote |-> r, configured |-> c] : r \in JsonRemotes, c \in BOOLEAN}
    \cup {[via |-> "api", name |-> "get_account_info", args |-> EmptyDict,
           remote |-> r, configured |-> c] : r \in JsonRemotes, c \in BOOLEAN}

NotRun == [raised |-> "not run", requests |-> <<>>]

-----------------------------------------------------------------------------
(* The executor and the pass-through routes on their own *)

\* jm_tools.execute(name, args) called directly
Execute ==
    /\ call.via = "execute"
    /\ outcome.raised = "not run"
    /\ outcome' = execute(call.name, call.args, call.remote)
    /\ UNCHANGED <<call, chatVars>>

\* A route body of main.py: get_justmagic_tools() raises when no key is
\* configured; any exception of the body becomes HTTPException(500).
Route(route, name, args) ==
    /\ call.via = "api"
    /\ call.name = route
    /\ outcome.raised = "not run"
    /\ LET out == execute(name, args, call.remote) IN
       outcome' = IF ~call.configured THEN Raised("HTTPException", <<>>)
                  ELSE IF out.raised # "none"
                       THEN Raised("HTTPException", out.requests)
                  ELSE out
    /\ UNCHANGED <<call, chatVars>>

\* GET /api/tasks?limit=  (limit: int = 10)
list_tasks ==
    Route("list_tasks", "justmagic_list_tasks",
          [limit |-> Get(call.args, "limit", 10)])

\* GET /api/tasks/{tid}
get_task ==
    Route("get_task", "justmagic_get_task", [tid |-> call.args["tid"], mode |-> "info"])

\* GET /api/account
get_account_info == Route("get_account_info", "justmagic_info", EmptyDict)

\* The caller goes on to its next call on the same JustMagicTools object
\* after a call that came back as request_error (the for loop of chat
\* executes the next tool_use with the same jm_tools); the remote system
\* answers this one.
NextCall ==
    /\ outcome.raised = "none"
    /\ "after" \notin DOMAIN call
    /\ "errtxt" \in DOMAIN outcome.result
    /\ outcome.result.err = "request_error"
    /\ call' = ("after" :> "request_error") @@ [call EXCEPT !.remote.net = "ok"]
    /\ outcome' = NotRun
    /\ UNCHANGED chatVars

-----------------------------------------------------------------------------
(* The conversation store and the agent loop of POST /api/chat *)

MaxRuns == 2         \* chat requests in one behaviour
MaxToolUses == 1     \* tool_use blocks the model issues, over all turns and runs
MaxClears == 1       \* clear requests in one behaviour

HistoryCap == 40     \* if len(history) > 40: ... history[-40:]
PreviewLen == 200    \* str(result)[:200]

ConvIds == {"c1", "c2"}
Runs == 1..MaxRuns
\* list objects: one per conversation, one per run, one being allocated
Refs == 1..(Cardinality(ConvIds) + MaxRuns + 1)

Range(f) == {f[k] : k \in DOMAIN f}

\* content blocks
Text(s) == [type |-> "text", text |-> s]
ToolUse(id, inv) == [type |-> "tool_use", id |-> id, name |-> inv.name, input |-> inv.input]
ToolResult(id, content) == [type |-> "tool_result", tool_use_id |-> id, content |-> content]

\* {"role": "user", "content": request.message}: the str content is held as
\* its one text block, so that every turn's content is a list of blocks
UserTurn(message) == [role |-> "user", content |-> <<Text(message)>>]
AssistantTurn(content) == [role |-> "assistant", content |-> content]
ToolResultTurn(results) == [role |-> "user", content |-> results]

\* json.dumps(result, ensure_ascii=False) and str(result): a rendering of the
\* value as text
Dumps(result) == ToString(result)
Str(result) == ToString(result)
\* bug: the preview is the whole rendering
Preview_Untruncated(result) == Str(result)

Preview(result) == SubSeq(Str(result), 1, Min(PreviewLen, Len(Str(result))))

\* The tool invocations the model asks for in this model: a well-formed
\* cluster call and three others: a cluster call without its required
\* queries, a name that is not a tool, and a download, which the remote
\* system answers with a table whose rendering is longer than the preview.
GoodInvocation == [name |-> "justmagic_cluster", input |-> [queries |-> SomeQueries]]
BadInvocations ==
    {[name |-> "justmagic_cluster", input |-> EmptyDict],
     [name |-> "justmagic_delete_task", input |-> EmptyDict],
     [name |-> "justmagic_download_result", input |-> [tid |-> 7]]}

LongPhrase ==
    "buy comfortable waterproof leather hiking shoes for wide feet online with free delivery today"
LongTable == [i \in 1..3 |-> <<LongPhrase, ToString(i)>>]

\* how the remote system answers the invocations of a chat run
ChatRemotes(name) ==
    IF name = "justmagic_download_result"
    THEN {[net |-> "gzip", table |-> LongTable]}
    ELSE {[net |-> n, table |-> <<>>] : n \in {"ok", "transport_error"}}

\* the invocations of one model turn: up to most of them, at most one bad
InvocationLists(most) ==
    UNION {{[i \in 1..n |-> GoodInvocation]}
           \cup {[i \in 1..n |-> IF i = k THEN bad ELSE GoodInvocation] :
                    k \in 1..n, bad \in BadInvocations} : n \in 1..most}

\* response.content of a turn with stop_reason "tool_use": a text block and
\* the tool_use blocks, which carry the ids the model service gives them,
\* distinct over the run
ToolUseBlocks(issued, invs) == [i \in 1..Len(invs) |-> ToolUse(issued + i, invs[i])]
ToolUseContents(issued, most) ==
    {<<Text("calling tools")>> \o ToolUseBlocks(issued, invs) :
        invs \in InvocationLists(most)}

\* response.content of a turn with another stop_reason
FinalContents == {<<Text("task "), Text("7")>>}

\* [block for block in response.content if block.type == "tool_use"]
ToolUsesOf(content) == SelectSeq(content, LAMBDA b : b.type = "tool_use")

\* final_text: the text of every block that has one, in order
RECURSIVE FinalText(_)
FinalText(content) ==
    IF content = <<>> THEN ""
    ELSE (IF "text" \in DOMAIN content[1] THEN content[1].text ELSE "")
         \o FinalText(Tail(content))

\* list objects something still refers to
Live(convs, hist) == Range(convs) \cup (Range(hist) \ {0})

\* a list object nothing refers to (the smallest, so that states are canonical)
NewRef(convs, hist) ==
    CHOOSE ref \in Refs \ Live(convs, hist) :
        \A other \in Refs \ Live(convs, hist) : ref <= other

\* the heap once the list objects nothing refers to are freed
Collect(h, convs, hist) ==
    [ref \in Refs |-> IF ref \in Live(convs, hist) THEN h[ref] ELSE <<>>]

\* conversations.get(conv_id, [])
StoreGet(c) == IF c \in DOMAIN conversations THEN heap[conversations[c]] ELSE <<>>

\* execute() of this invocation posts a request, so the await suspends the run
Suspends(tu) == tu.name \in Dispatched /\ ~KeyErrorIn(tu.name, tu.input)

\* The handlers are coroutines of one event loop and the model call is a
\* blocking call: a run gives the loop up only inside an execute() that
\* awaits a request.  A run holds the loop from the moment it is resumed
\* until its next such await.
Holds(r) ==
    \/ pc[r] = "AwaitingModel"
    \/ /\ pc[r] = "ExecutingTools"
       /\ \/ Len(tool_results[r]) = Len(tool_uses[r])
          \/ ~Suspends(tool_uses[r][Len(tool_results[r]) + 1])

LoopFree(r) == \A q \in Runs \ {r} : ~Holds(q)

\* local variables of a run that has returned or raised
Drop(f, r, v) == [f EXCEPT ![r] = v]


\* the run is between its start and its exit
Active(r) == pc[r] \in {"AwaitingModel", "ExecutingTools"}

\* ghost log of a run that is not active
NoLog == [before |-> <<>>, mine |-> <<>>, alone |-> FALSE]

\* ghost: an operation on conversation c disturbs the active runs on c
Disturbed(log, c) ==
    [q \in Runs |-> IF Active(q) /\ conv_id[q] = c
                    THEN [log[q] EXCEPT !.alone = FALSE] ELSE log[q]]

\* POST /api/chat, line 151-163: bind history to the conversation's list
\* (created when the id is new) and append the user turn
chat(r, c) ==
    /\ pc[r] = "idle"
    /\ r > 1 => pc[r - 1] # "idle"
    /\ LoopFree(r)
    /\ LET known == c \in DOMAIN conversations
           ref == IF known THEN conversations[c] ELSE NewRef(conversations, history)
           turn == UserTurn("message " \o ToString(r))
       IN  /\ conversations' = IF known THEN conversations ELSE (c :> ref) @@ conversations
           /\ history' = [history EXCEPT ![r] = ref]
           /\ heap' = [heap EXCEPT ![ref] = Append(@, turn)]
           /\ appended' = [appended EXCEPT ![c] = Append(@, turn)]
           /\ run_log' = [Disturbed(run_log, c) EXCEPT ![r] =
                  [before |-> StoreGet(c), mine |-> <<turn>>,
                   alone |-> ~\E q \in Runs \ {r} : Active(q) /\ conv_id[q] = c]]
    /\ conv_id' = [conv_id EXCEPT ![r] = c]
    /\ pc' = [pc EXCEPT ![r] = "AwaitingModel"]
    /\ UNCHANGED <<tool_uses, tool_results, tool_calls_made, reply, calls, turns, clears,
                   execVars>>

\* bug: the handler takes the last turn back off the history
Fail_PopsLastTurn(r, detail) ==
    /\ pc' = [pc EXCEPT ![r] = "Failed"]
    /\ reply' = [reply EXCEPT ![r] = [status |-> 500, detail |-> detail]]
    /\ history' = Drop(history, r, 0)
    /\ heap' = Collect([heap EXCEPT ![history[r]] = SubSeq(@, 1, Len(@) - 1)],
                       conversations, Drop(history, r, 0))
    /\ tool_uses' = Drop(tool_uses, r, <<>>)
    /\ tool_results' = Drop(tool_results, r, <<>>)
    /\ tool_calls_made' = Drop(tool_calls_made, r, <<>>)
    /\ run_log' = Drop(run_log, r, NoLog)
    /\ UNCHANGED <<conversations, conv_id, appended, turns, clears, execVars>>

\* the run raises: except ... raise HTTPException(status_code=500), line 251-256
Fail(r, detail) ==
    /\ pc' = [pc EXCEPT ![r] = "Failed"]
    /\ reply' = [reply EXCEPT ![r] = [status |-> 500, detail |-> detail]]
    /\ history' = Drop(history, r, 0)
    /\ heap' = Collect(heap, conversations, Drop(history, r, 0))
    /\ tool_uses' = Drop(tool_uses, r, <<>>)
    /\ tool_results' = Drop(tool_results, r, <<>>)
    /\ tool_calls_made' = Drop(tool_calls_made, r, <<>>)
    /\ run_log' = Drop(run_log, r, NoLog)
    /\ UNCHANGED <<conversations, conv_id, appended, turns, clears, execVars>>

\* bug: the handler logs the error and does not re-raise: chat() returns None
model_error_Swallowed(r) ==
    /\ pc[r] = "AwaitingModel"
    /\ pc' = [pc EXCEPT ![r] = "Returned"]
    /\ history' = Drop(history, r, 0)
    /\ heap' = Collect(heap, conversations, Drop(history, r, 0))
    /\ tool_uses' = Drop(tool_uses, r, <<>>)
    /\ tool_results' = Drop(tool_results, r, <<>>)
    /\ tool_calls_made' = Drop(tool_calls_made, r, <<>>)
    /\ run_log' = Drop(run_log, r, NoLog)
    /\ UNCHANGED <<conversations, conv_id, reply, appended, calls, turns, clears,
                   execVars>>

\* client.messages.create raises anthropic.APIError, line 170 and 221
model_error(r) ==
    /\ pc[r] = "AwaitingModel"
    /\ Fail(r, "AI service error")
    /\ UNCHANGED calls

\* bug: the assistant turn is not appended before its tools are executed
tool_use_turn_NotAppended(r) ==
    /\ pc[r] = "AwaitingModel"
    /\ turns < MaxToolUses
    /\ \E content \in ToolUseContents(turns, MaxToolUses - turns) :
        /\ tool_uses' = [tool_uses EXCEPT ![r] = ToolUsesOf(content)]
        /\ turns' = turns + Len(ToolUsesOf(content))
    /\ tool_results' = [tool_results EXCEPT ![r] = <<>>]
    /\ pc' = [pc EXCEPT ![r] = "ExecutingTools"]
    /\ UNCHANGED <<conversations, heap, conv_id, history, tool_calls_made, reply,
                   appended, calls, run_log, clears, execVars>>

\* the model's turn has stop_reason "tool_use", line 181-189: collect its
\* tool_use blocks and append the assistant turn
tool_use_turn(r) ==
    /\ pc[r] = "AwaitingModel"
    /\ turns < MaxToolUses
    /\ \E content \in ToolUseContents(turns, MaxToolUses - turns) :
        /\ tool_uses' = [tool_uses EXCEPT ![r] = ToolUsesOf(content)]
        /\ turns' = turns + Len(ToolUsesOf(content))
        /\ heap' = [heap EXCEPT ![history[r]] = Append(@, AssistantTurn(content))]
        /\ appended' = [appended EXCEPT ![conv_id[r]] = Append(@, AssistantTurn(content))]
        /\ run_log' = [run_log EXCEPT ![r].mine = Append(@, AssistantTurn(content))]
    /\ tool_results' = [tool_results EXCEPT ![r] = <<>>]
    /\ pc' = [pc EXCEPT ![r] = "ExecutingTools"]
    /\ UNCHANGED <<conversations, conv_id, history, tool_calls_made, reply, calls,
                   clears, execVars>>

\* one pass of the for loop, line 193-212: execute the next tool_use and
\* record its audit entry and its tool_result block; an exception of
\* execute() leaves the loop through except Exception
execute_tool(r) ==
    /\ pc[r] = "ExecutingTools"
    /\ Len(tool_results[r]) < Len(tool_uses[r])
    /\ LoopFree(r)
    /\ LET tool_use == tool_uses[r][Len(tool_results[r]) + 1] IN
       \E remote \in ChatRemotes(tool_use.name) :
          LET out == execute(tool_use.name, tool_use.input, remote) IN
          /\ calls' = Append(calls, [id |-> tool_use.id,
                                     requests |-> Len(out.requests)])
          /\ IF out.raised # "none"
             THEN Fail(r, out.raised)
             ELSE /\ tool_calls_made' = [tool_calls_made EXCEPT ![r] =
                         Append(@, [tool |-> tool_use.name, input |-> tool_use.input,
                                    result_preview |-> Preview(out.result)])]
                  /\ tool_results' = [tool_results EXCEPT ![r] =
                         Append(@, ToolResult(tool_use.id, Dumps(out.result)))]
                  /\ UNCHANGED <<conversations, heap, pc, conv_id, history,
                                 tool_uses, reply, appended, run_log, turns, clears,
                                 execVars>>

\* after the for loop, line 215-218: append the one turn of tool results and
\* go on to the next model call
append_tool_results(r) ==
    /\ pc[r] = "ExecutingTools"
    /\ Len(tool_results[r]) = Len(tool_uses[r])
    /\ LET turn == ToolResultTurn(tool_results[r]) IN
        /\ heap' = [heap EXCEPT ![history[r]] = Append(@, turn)]
        /\ appended' = [appended EXCEPT ![conv_id[r]] = Append(@, turn)]
        /\ run_log' = [run_log EXCEPT ![r].mine = Append(@, turn)]
    /\ pc' = [pc EXCEPT ![r] = "AwaitingModel"]
    /\ UNCHANGED <<conversations, conv_id, history, tool_uses, tool_results,
                   tool_calls_made, reply, calls, turns, clears, execVars>>

\* the model's turn has another stop_reason, line 229-249: build final_text,
\* append the assistant turn, cut the stored history and return; tool_calls
\* is None (the field is left out here) when tool_calls_made is empty
final_turn(r) ==
    /\ pc[r] = "AwaitingModel"
    /\ \E content \in FinalContents :
        LET turn == AssistantTurn(content)
            full == Append(heap[history[r]], turn)
            cut == Len(full) > HistoryCap
            hist == Drop(history, r, 0)
            convs == IF cut
                     THEN (conv_id[r] :> NewRef(conversations, history)) @@ conversations
                     ELSE conversations
            h == IF cut
                 THEN [heap EXCEPT ![history[r]] = full,
                                   ![NewRef(conversations, history)] = LastN(full, HistoryCap)]
                 ELSE [heap EXCEPT ![history[r]] = full]
        IN  /\ conversations' = convs
            /\ heap' = Collect(h, convs, hist)
            /\ history' = hist
            /\ appended' = [appended EXCEPT ![conv_id[r]] = Append(@, turn)]
            /\ reply' = [reply EXCEPT ![r] =
                   [status |-> 200, response |-> FinalText(content),
                    conversation_id |-> conv_id[r]]
                   @@ Field(tool_calls_made[r] # <<>>, "tool_calls",
                            tool_calls_made[r])]
    /\ pc' = [pc EXCEPT ![r] = "Done"]
    /\ tool_uses' = Drop(tool_uses, r, <<>>)
    /\ tool_results' = Drop(tool_results, r, <<>>)
    /\ tool_calls_made' = Drop(tool_calls_made, r, <<>>)
    /\ run_log' = Drop(run_log, r, NoLog)
    /\ UNCHANGED <<conv_id, calls, turns, clears, execVars>>

\* bug: clear empties the whole store (conversations.clear())
clear_conversation_All(c) ==
    /\ \A q \in Runs : ~Holds(q)
    /\ clears < MaxClears
    /\ c \in DOMAIN conversations
    /\ conversations' = EmptyDict
    /\ heap' = Collect(heap, EmptyDict, history)
    /\ appended' = [appended EXCEPT ![c] = <<>>]
    /\ run_log' = Disturbed(run_log, c)
    /\ clears' = clears + 1
    /\ UNCHANGED <<pc, conv_id, history, tool_uses, tool_results, tool_calls_made,
                   reply, calls, turns, execVars>>

\* POST /api/clear, line 259-264
clear_conversation(c) ==
    /\ \A q \in Runs : ~Holds(q)
    /\ clears < MaxClears
    /\ c \in DOMAIN conversations
    /\ LET convs == [k \in DOMAIN conversations \ {c} |-> conversations[k]] IN
        /\ conversations' = convs
        /\ heap' = Collect(heap, convs, history)
    /\ appended' = [appended EXCEPT ![c] = <<>>]
    /\ run_log' = Disturbed(run_log, c)
    /\ clears' = clears + 1
    /\ UNCHANGED <<pc, conv_id, history, tool_uses, tool_results, tool_calls_made,
                   reply, calls, turns, execVars>>

-----------------------------------------------------------------------------
(* Specifications *)

\* a history the store can hold after earlier runs: n/2 runs that ended Done
\* without tools and, for an odd n, a last run whose first model call failed
PriorHistory(n) ==
    [i \in 1..n |-> IF i % 2 = 1 THEN UserTurn("earlier " \o ToString(i))
                    ELSE AssistantTurn(<<Text("answer " \o ToString(i))>>)]

PriorLens == {0, HistoryCap - 2, HistoryCap - 1}

NoReply == [status |-> 0]

InitChat(n) ==
    /\ conversations = IF n = 0 THEN EmptyDict ELSE ("c1" :> 1)
    /\ heap = [ref \in Refs |-> IF ref = 1 THEN PriorHistory(n) ELSE <<>>]
    /\ appended = [c \in ConvIds |-> IF c = "c1" THEN PriorHistory(n) ELSE <<>>]
    /\ pc = [r \in Runs |-> "idle"]
    /\ conv_id = [r \in Runs |-> "c1"]
    /\ history = [r \in Runs |-> 0]
    /\ tool_uses = [r \in Runs |-> <<>>]
    /\ tool_results = [r \in Runs |-> <<>>]
    /\ tool_calls_made = [r \in Runs |-> <<>>]
    /\ reply = [r \in Runs |-> NoReply]
    /\ run_log = [r \in Runs |-> NoLog]
    /\ calls = <<>>
    /\ turns = 0
    /\ clears = 0

Init ==
    /\ \E n \in PriorLens : InitChat(n)
    /\ call = [via |-> "none"]
    /\ outcome = NotRun

Next ==
    \/ \E r \in Runs, c \in ConvIds : chat(r, c)
    \/ \E r \in Runs : model_error(r)
    \/ \E r \in Runs : tool_use_turn(r)
    \/ \E r \in Runs : execute_tool(r)
    \/ \E r \in Runs : append_tool_results(r)
    \/ \E r \in Runs : final_turn(r)
    \/ \E c \in ConvIds : clear_conversation(c)

Spec == Init /\ [][Next]_vars

\* the executor and the routes, on every call of the bounded input sets
InitExec ==
    /\ InitChat(0)
    /\ call \in ExecuteCalls \cup ApiCalls
    /\ outcome = NotRun

NextExec ==
    \/ Execute
    \/ list_tasks
    \/ get_task
    \/ get_account_info
    \/ NextCall

SpecExec == InitExec /\ [][NextExec]_vars

\* The steps of run r after its start.  Once started, a run is scheduled by
\* the event loop until it returns or raises: the model call is a blocking
\* call that returns or raises, and an awaited request is bounded by the
\* client's timeout of 120 s, so a step that stays possible is taken.
RunStep(r) ==
    \/ model_error(r)
    \/ tool_use_turn(r)
    \/ execute_tool(r)
    \/ append_tool_results(r)
    \/ final_turn(r)

\* chat requests on new conversations, without clear requests (a clear does
\* not touch a run's position)
InitFair ==
    /\ InitChat(0)
    /\ call = [via |-> "none"]
    /\ outcome = NotRun

NextFair ==
    \/ \E r \in Runs, c \in ConvIds : chat(r, c)
    \/ \E r \in Runs : model_error(r)
    \/ \E r \in Runs : tool_use_turn(r)
    \/ \E r \in Runs : execute_tool(r)
    \/ \E r \in Runs : append_tool_results(r)
    \/ \E r \in Runs : final_turn(r)

SpecFair == InitFair /\ [][NextFair]_vars /\ \A r \in Runs : WF_vars(RunStep(r))

\* The chat requests that follow a first request on a new conversation whose
\* first model turn asked for two tools: the state after line 186-189 of that
\* run.  The ids of its two tool_use blocks differ from every id issued later.
PairContents ==
    {<<Text("calling tools")>> \o ToolUseBlocks(MaxToolUses, invs) :
        invs \in {l \in InvocationLists(2) : Len(l) = 2}}

InitTurn ==
    /\ \E content \in PairContents :
        LET turns2 == <<UserTurn("message 1"), AssistantTurn(content)>> IN
        /\ heap = [ref \in Refs |-> IF ref = 1 THEN turns2 ELSE <<>>]
        /\ appended = [c \in ConvIds |-> IF c = "c1" THEN turns2 ELSE <<>>]
        /\ tool_uses = [r \in Runs |-> IF r = 1 THEN ToolUsesOf(content) ELSE <<>>]
        /\ run_log = [r \in Runs |->
              IF r = 1 THEN [before |-> <<>>, mine |-> turns2, alone |-> TRUE]
              ELSE NoLog]
    /\ conversations = ("c1" :> 1)
    /\ pc = [r \in Runs |-> IF r = 1 THEN "ExecutingTools" ELSE "idle"]
    /\ conv_id = [r \in Runs |-> "c1"]
    /\ history = [r \in Runs |-> IF r = 1 THEN 1 ELSE 0]
    /\ tool_results = [r \in Runs |-> <<>>]
    /\ tool_calls_made = [r \in Runs |-> <<>>]
    /\ reply = [r \in Runs |-> NoReply]
    /\ calls = <<>>
    /\ turns = 0
    /\ clears = 0
    /\ call = [via |-> "none"]
    /\ outcome = NotRun

SpecTurn == InitTurn /\ [][NextFair]_vars


-----------------------------------------------------------------------------
(* Properties *)

\* the error kind of a result value, "none" for a result that is no error
ErrKind(result) == IF "errtxt" \in DOMAIN result THEN result.err ELSE "none"

\* execute(name, ...) was called directly and returned
Executed(name) ==
    call.via = "execute" /\ call.name = name /\ outcome.raised = "none"

\* the one request an executed call posted
Sent == outcome.requests[1]

\* C1: every conversation history held by the store has at most 40 turns, in
\* every reachable state (the cap is enforced on every append).
C1_StoredHistoryWithinCap ==
    \A c \in DOMAIN conversations : Len(StoreGet(c)) <= HistoryCap

\* C2: get(convId) is exactly the 40 most recently appended turns of the
\* conversation, in their original order, after any sequence of appends.
C2_StoreIsRecentWindow ==
    \A c \in DOMAIN conversations : StoreGet(c) = LastN(appended[c], HistoryCap)

\* C3: every model turn that requests n tool invocations is followed by
\* exactly one combined turn of the loop, holding n tool-result blocks whose
\* i-th block carries the id of the i-th invocation: a run leaves the
\* execution of a tool-use turn only by appending that turn.
C3_OneCombinedTurnPerToolTurn ==
    [][\A r \in Runs :
        (pc[r] = "ExecutingTools" /\ pc'[r] # "ExecutingTools") =>
            /\ pc'[r] = "AwaitingModel"
            /\ Len(tool_results[r]) = Len(tool_uses[r])
            /\ \A i \in 1..Len(tool_uses[r]) :
                  /\ tool_results[r][i].type = "tool_result"
                  /\ tool_results[r][i].tool_use_id = tool_uses[r][i].id
            /\ heap'[history[r]] =
                  Append(heap[history[r]], ToolResultTurn(tool_results[r]))]_vars

\* C4: a tool-level error of an invocation never ends the run in Failed:
\* every execution of an invocation leaves the run executing tools, with the
\* outcome in that invocation's tool-result block.
C4_ToolErrorsNeverFail ==
    [][\A r \in Runs :
        (/\ pc[r] = "ExecutingTools"
         /\ Len(tool_results[r]) < Len(tool_uses[r])
         /\ <<pc[r], tool_results[r]>> # <<pc'[r], tool_results'[r]>>) =>
            /\ pc'[r] = "ExecutingTools"
            /\ Len(tool_results'[r]) = Len(tool_results[r]) + 1
            /\ tool_results'[r][Len(tool_results'[r])].tool_use_id =
                  tool_uses[r][Len(tool_results[r]) + 1].id]_vars

\* C5: an invocation of a catalog tool that omits a required parameter posts
\* no request and yields a result value of kind schema_error.
C5_MissingRequiredIsSchemaError ==
    (/\ call.via = "execute"
     /\ outcome.raised # "not run"
     /\ call.name \in CatalogNames
     /\ ~(Required(call.name) \subseteq DOMAIN call.args)) =>
        /\ outcome.requests = <<>>
        /\ outcome.raised = "none"
        /\ ErrKind(outcome.result) = "schema_error"

\* C6: executing a name that is not one of the 14 catalog names returns an
\* error result of kind unknown_tool, whatever the arguments, and posts no
\* request.
C6_UnknownToolIsAnErrorResult ==
    (/\ call.via = "execute"
     /\ outcome.raised # "not run"
     /\ call.name \notin CatalogNames) =>
        /\ outcome.raised = "none"
        /\ ErrKind(outcome.result) = "unknown_tool"
        /\ outcome.requests = <<>>

C6_Witness ==
    /\ call.via = "execute"
    /\ call.name = "justmagic_delete_task"
    /\ DOMAIN call.args = {"tid", "queries"}
    /\ outcome.raised = "none"
    /\ ErrKind(outcome.result) = "unknown_tool"
    /\ outcome.requests = <<>>

\* the limit expected on the wire for a supplied limit
ExpectedLimit(args) ==
    IF "limit" \notin DOMAIN args THEN 10
    ELSE IF args["limit"] > 100 THEN 100 ELSE args["limit"]

\* C7: through the list-tasks tool and through /api/tasks, the limit sent is
\* at most 100: 100 when the supplied limit exceeds 100, the supplied limit
\* otherwise, and 10 when no limit is supplied.
C7_LimitClamped ==
    (/\ \/ call.via = "execute" /\ call.name = "justmagic_list_tasks"
        \/ call.via = "api" /\ call.name = "list_tasks"
     /\ outcome.raised = "none") =>
        /\ Len(outcome.requests) = 1
        /\ Sent.action = "list_tasks"
        /\ Sent.limit = ToString(ExpectedLimit(call.args))
        /\ Sent.limit \in {ToString(i) : i \in -1..100}

C7_Witness ==
    /\ call.via = "api"
    /\ call.name = "list_tasks"
    /\ "limit" \in DOMAIN call.args
    /\ call.args["limit"] = 500
    /\ outcome.raised = "none"
    /\ Sent.limit = "100"

\* the nearest value of lo..hi
Nearest(x, lo, hi) == IF x < lo THEN lo ELSE IF x > hi THEN hi ELSE x

\* the arguments of the executed call with the integer argument k set to x
WithInt(k, x) == (k :> x) @@ call.args

\* C8: the wire value of iter lies in 1..3, of deep in 0..9 and of min_pwr
\* (marker and expansion tool) in 3..9: an input below the range is sent as
\* the lower bound, one above it as the upper bound, one inside it unchanged,
\* and the mapping is monotonic (no larger input is sent as a smaller value).
C8_Clamped ==
    /\ Executed("justmagic_suggestions_parser") =>
          LET x == Get(call.args, "iterations", 1) IN
          /\ Sent.iter = ToString(Nearest(x, 1, 3))
          /\ Sent.iter \in {ToString(i) : i \in 1..3}
          /\ \A b \in IntArgs : x <= b =>
                SuggestionsTask(call.args).iter
                   <= SuggestionsTask(WithInt("iterations", b)).iter
    /\ Executed("justmagic_markers_online") =>
          LET x == Get(call.args, "min_power", 3) IN
          /\ Sent.min_pwr = ToString(Nearest(x, 3, 9))
          /\ Sent.min_pwr \in {ToString(i) : i \in 3..9}
          /\ \A b \in IntArgs : x <= b =>
                MarkersTask(call.args).min_pwr
                   <= MarkersTask(WithInt("min_power", b)).min_pwr
    /\ Executed("justmagic_expand_semantics") =>
          LET x == Get(call.args, "depth", 1)
              y == Get(call.args, "min_power", 3) IN
          /\ Sent.deep = ToString(Nearest(x, 0, 9))
          /\ Sent.deep \in {ToString(i) : i \in 0..9}
          /\ Sent.min_pwr = ToString(Nearest(y, 3, 9))
          /\ Sent.min_pwr \in {ToString(i) : i \in 3..9}
          /\ \A b \in IntArgs :
                /\ x <= b => ExpandTask(call.args).deep
                                <= ExpandTask(WithInt("depth", b)).deep
                /\ y <= b => ExpandTask(call.args).min_pwr
                                <= ExpandTask(WithInt("min_power", b)).min_pwr

C8_Witness ==
    /\ Executed("justmagic_expand_semantics")
    /\ DOMAIN call.args = {"queries", "depth", "min_power"}
    /\ call.args["depth"] > 9
    /\ call.args["min_power"] < 3
    /\ Sent.deep = "9"
    /\ Sent.min_pwr = "3"

\* the cluster call asks for the google region
AsksGoogleRegion(args) ==
    /\ "search_engine" \in DOMAIN args
    /\ args["search_engine"] = "google"
    /\ "google_lr" \in DOMAIN args
    /\ args["google_lr"] # ""

\* C9: the cluster payload carries exactly one of the two region fields:
\* google_lr with the supplied string when search_engine is google and a
\* non-empty google_lr is supplied, otherwise ya_lr with the numeric region
\* (213 when none is supplied).
C9_ExactlyOneRegionField ==
    Executed("justmagic_cluster") =>
        /\ ("google_lr" \in DOMAIN Sent) # ("ya_lr" \in DOMAIN Sent)
        /\ AsksGoogleRegion(call.args) =>
              "google_lr" \in DOMAIN Sent /\ Sent.google_lr = call.args["google_lr"]
        /\ ~AsksGoogleRegion(call.args) =>
              /\ "ya_lr" \in DOMAIN Sent
              /\ Sent.ya_lr = ToString(IF "region" \in DOMAIN call.args
                                       THEN call.args["region"] ELSE 213)

C9_Witness ==
    /\ Executed("justmagic_cluster")
    /\ AsksGoogleRegion(call.args)
    /\ "region" \in DOMAIN call.args
    /\ Sent.google_lr = "us"
    /\ "ya_lr" \notin DOMAIN Sent

\* the wire field is sent exactly when the flag argument is present and true,
\* and then as 1
FlagSent(arg, field) ==
    /\ (field \in DOMAIN Sent) <=> (arg \in DOMAIN call.args /\ call.args[arg])
    /\ field \in DOMAIN Sent => Sent[field] = "1"

\* the wire field is sent exactly when the string argument is present and not
\* empty, and then with the argument's value
StringSent(arg, field) ==
    /\ (field \in DOMAIN Sent) <=> (arg \in DOMAIN call.args /\ call.args[arg] # "")
    /\ field \in DOMAIN Sent => Sent[field] = call.args[arg] /\ Sent[field] # ""

\* C10: each optional field (cluster label, domain, collect_frequency ->
\* s_std; regex exclude_pattern -> rexpd; classifier show_all_categories ->
\* f_gall; suggestions add_russian_letters -> f_rus; wordstat label) is in the
\* submitted payload if and only if its argument is present and truthy, and
\* is never sent with a false or empty value.
C10_OptionalFieldsOnlyWhenTruthy ==
    /\ Executed("justmagic_cluster") =>
          /\ StringSent("label", "label")
          /\ StringSent("domain", "domain")
          /\ FlagSent("collect_frequency", "s_std")
    /\ Executed("justmagic_regex_search") => StringSent("exclude_pattern", "rexpd")
    /\ Executed("justmagic_thematic_classifier") =>
          FlagSent("show_all_categories", "f_gall")
    /\ Executed("justmagic_suggestions_parser") =>
          FlagSent("add_russian_letters", "f_rus")
    /\ Executed("justmagic_wordstat_frequency") => StringSent("label", "label")

C10_Witness ==
    /\ Executed("justmagic_cluster")
    /\ {"label", "domain", "collect_frequency"} \subseteq DOMAIN call.args
    /\ call.args["label"] = ""
    /\ call.args["domain"] = "shop.ru"
    /\ ~call.args["collect_frequency"]
    /\ "label" \notin DOMAIN Sent
    /\ "s_std" \notin DOMAIN Sent
    /\ Sent.domain = "shop.ru"


\* the ten tools that submit a task with put_task
PutTaskTools ==
    {"justmagic_cluster", "justmagic_text_analyzer", "justmagic_aquarelle",
     "justmagic_aquarelle_generator", "justmagic_wordstat_frequency",
     "justmagic_suggestions_parser", "justmagic_thematic_classifier",
     "justmagic_markers_online", "justmagic_expand_semantics",
     "justmagic_regex_search"}

\* C11: for each of the ten task-submitting tools, the submitted payload
\* carries the wire flag justask if and only if the invocation's just_ask
\* argument is truthy.
C11_JustAskIffRequested ==
    (/\ call.via = "execute"
     /\ call.name \in PutTaskTools
     /\ outcome.raised = "none") =>
        /\ Len(outcome.requests) = 1
        /\ Sent.action = "put_task"
        /\ ("justask" \in DOMAIN Sent) <=>
              ("just_ask" \in DOMAIN call.args /\ call.args["just_ask"])

\* text.split(sep) for a one-character sep
RECURSIVE Split(_, _)
Split(text, sep) ==
    LET hits == {i \in 1..Len(text) : SubSeq(text, i, i) = sep} IN
    IF hits = {} THEN <<text>>
    ELSE LET first == CHOOSE i \in hits : \A j \in hits : i <= j IN
         <<SubSeq(text, 1, first - 1)>>
            \o Split(SubSeq(text, first + 1, Len(text)), sep)

\* the lines of a data field; an empty field has none
LinesOf(data) == IF data = "" THEN <<>> ELSE Split(data, "\n")

\* the (page, query) positions of a page list, and the place of a position
\* in page order then query order
PairsOf(pages) ==
    {p \in (1..Len(pages)) \X (1..MaxQueries + 1) :
        p[2] <= Len(pages[p[1]]["queries"])}
Place(pairs, p) ==
    Cardinality({q \in pairs : q[1] < p[1] \/ (q[1] = p[1] /\ q[2] <= p[2])})

\* C12: the text-analyzer data field has one 'url<TAB>query' line per
\* (url, query) pair, sum(ki) lines in page order then query order; the
\* marker data field has one line per page, n lines, a page without queries
\* included (its line is the url alone).
C12_LinesPerPairAndPerPage ==
    /\ Executed("justmagic_text_analyzer") =>
          LET pages == call.args["pages"]
              lines == LinesOf(Sent.data)
              pairs == PairsOf(pages)
          IN  /\ Len(lines) = Cardinality(pairs)
              /\ \A p \in pairs :
                    Split(lines[Place(pairs, p)], "\t") =
                        <<pages[p[1]]["url"], pages[p[1]]["queries"][p[2]]>>
    /\ Executed("justmagic_markers_online") =>
          LET pages == call.args["pages"]
              lines == LinesOf(Sent.data)
          IN  /\ Len(lines) = Len(pages)
              /\ \A i \in 1..Len(pages) :
                    Split(lines[i], "\t") =
                        <<pages[i]["url"]>> \o Get(pages[i], "queries", <<>>)

C12_Witness ==
    /\ Executed("justmagic_markers_online")
    /\ Len(call.args["pages"]) = 2
    /\ "queries" \notin DOMAIN call.args["pages"][1]
    /\ Len(Get(call.args["pages"][2], "queries", <<>>)) = 2
    /\ LinesOf(Sent.data) = <<"u1", "u1\tbuy shoes\tshoe store">>

\* C13: for a decoded table of at least one row and every integer max_rows,
\* the download result reports total_rows = the number of rows and
\* returned_rows = min(total_rows, max_rows), and its rows are exactly the
\* first returned_rows rows of the table.
C13_ReturnedRowsMatchData ==
    (/\ Executed("justmagic_download_result")
     /\ "errtxt" \notin DOMAIN outcome.result) =>
        LET table == call.remote.table
            max_rows == Get(call.args, "max_rows", 100)
            result == outcome.result
        IN  /\ Len(table) >= 1
            /\ result.total_rows = Len(table)
            /\ result.returned_rows = Min(Len(table), max_rows)
            /\ Len(result.data) = result.returned_rows
            /\ result.data = [i \in 1..Len(result.data) |-> table[i]]

\* C14: a download whose payload is neither gzip nor UTF-8 text returns an
\* error result of kind no_data; no exception escapes.
C14_UndecodablePayloadIsNoData ==
    (/\ call.via = "execute"
     /\ call.name = "justmagic_download_result"
     /\ outcome.raised # "not run"
     /\ "tid" \in DOMAIN call.args
     /\ call.remote.net = "binary") =>
        /\ outcome.raised = "none"
        /\ ErrKind(outcome.result) = "no_data"

\* the call reached _request: a JSON call of the executor that posted
PostsJson ==
    /\ call.via = "execute"
    /\ outcome.raised # "not run"
    /\ call.name \in Dispatched \ {"justmagic_download_result"}
    /\ ~KeyErrorIn(call.name, call.args)

\* C15: a JSON call (put_task, info, list_tasks, get_task) never raises when
\* the transport fails or the response does not parse: it returns a result
\* of kind request_error with a message; and the next call on the same
\* client after such a failure is answered as any other call.
C15_RequestNeverRaises ==
    PostsJson =>
        /\ outcome.raised = "none"
        /\ Len(outcome.requests) = 1
        /\ call.remote.net \in {"transport_error", "parse_error"} =>
              /\ ErrKind(outcome.result) = "request_error"
              /\ outcome.result.errtxt # ""
        /\ "after" \in DOMAIN call =>
              /\ ErrKind(outcome.result) = "none"
              /\ outcome.result = ResponseJson(Sent, "ok")

C15_Witness ==
    /\ Executed("justmagic_cluster")
    /\ "after" \in DOMAIN call
    /\ call.after = "request_error"
    /\ outcome.result = [err |-> 0, tid |-> 7]

C17_FailureKeepsAppendedTurns ==
    [][\A r \in Runs :
        (Active(r) /\ pc'[r] = "Failed" /\ run_log[r].alone) =>
            /\ conv_id[r] \in DOMAIN conversations'
            /\ heap'[conversations'[conv_id[r]]] =
                  run_log[r].before \o run_log[r].mine
            /\ run_log[r].mine[1] = UserTurn("message " \o ToString(r))]_vars

C17_Witness ==
    \E r \in Runs :
        /\ pc[r] = "Failed"
        /\ reply[r].detail = "AI service error"
        /\ \A q \in Runs \ {r} : pc[q] = "idle"
        /\ clears = 0
        /\ Len(StoreGet(conv_id[r])) = HistoryCap + 2
        /\ StoreGet(conv_id[r])[HistoryCap + 2].content[1].type = "tool_result"

\* the step is a step of run r
RunStepped(r) == pc'[r] # pc[r] \/ tool_results'[r] # tool_results[r]

\* the step is a clear of conversation c
Cleared(c) ==
    /\ clears' # clears
    /\ appended'[c] = <<>>
    /\ c \notin DOMAIN conversations'

\* the step changes what the store holds for conversation c
Touched(c) ==
    \/ (c \in DOMAIN conversations) # (c \in DOMAIN conversations')
    \/ /\ c \in DOMAIN conversations
       /\ c \in DOMAIN conversations'
       /\ heap'[conversations'[c]] # heap[conversations[c]]

\* C18: under every interleaving, the stored history of a conversation id is
\* changed only by a step of a chat run on that id or by a clear of that id.
C18_OtherIdsUntouched ==
    [][\A c \in ConvIds :
        Touched(c) =>
            \/ \E r \in Runs : RunStepped(r) /\ conv_id'[r] = c
            \/ Cleared(c)]_vars

C18_Witness ==
    /\ pc[1] = "ExecutingTools"
    /\ pc[2] = "Done"
    /\ conv_id[1] # conv_id[2]
    /\ Len(StoreGet(conv_id[1])) = HistoryCap + 1
    /\ Len(StoreGet(conv_id[2])) = 2

\* C19: after clear(convId) the store holds nothing for the id until a chat
\* request that starts afterwards appends to it: the only step that makes an
\* empty history non-empty is the start of a chat run on that id.
C19_ClearedStaysEmpty ==
    [][\A c \in ConvIds :
        ((c \notin DOMAIN conversations) /\ (c \in DOMAIN conversations')) =>
            \E r \in Runs :
                /\ pc[r] = "idle"
                /\ pc'[r] = "AwaitingModel"
                /\ conv_id'[r] = c]_vars

\* C20: a cluster invocation that supplies only its query list posts exactly
\* one put_task request with task grp_onl, data the queries joined by newline
\* in their order, search_engine yandex, ya_lr 213, lang ru, and no field
\* besides these, action and the API key.
C20_ClusterDefaults ==
    (/\ call.via = "execute"
     /\ call.name = "justmagic_cluster"
     /\ outcome.raised # "not run"
     /\ DOMAIN call.args = {"queries"}) =>
        /\ outcome.raised = "none"
        /\ Len(outcome.requests) = 1
        /\ DOMAIN Sent = {"action", "apikey", "task", "data", "search_engine",
                          "ya_lr", "lang"}
        /\ Sent.action = "put_task"
        /\ Sent.apikey = API_KEY
        /\ Sent.task = "grp_onl"
        /\ LinesOf(Sent.data) = call.args["queries"]
        /\ Sent.search_engine = "yandex"
        /\ Sent.ya_lr = "213"
        /\ Sent.lang = "ru"

C20_Witness ==
    /\ Executed("justmagic_cluster")
    /\ DOMAIN call.args = {"queries"}
    /\ call.args["queries"] = <<"shoe store", "buy shoes">>
    /\ Sent.data = "shoe store\nbuy shoes"
    /\ Sent.ya_lr = "213"

\* the request that belongs to each catalog tool: its action and, for a
\* submitted task, its mnemonic ("" for the calls that submit none)
OwnRequest ==
    [n \in CatalogNames |->
        CASE n = "justmagic_info" -> [action |-> "info", task |-> ""]
          [] n = "justmagic_list_tasks" -> [action |-> "list_tasks", task |-> ""]
          [] n = "justmagic_get_task" -> [action |-> "get_task", task |-> ""]
          [] n = "justmagic_download_result" -> [action |-> "get_task", task |-> ""]
          [] n = "justmagic_cluster" -> [action |-> "put_task", task |-> "grp_onl"]
          [] n = "justmagic_text_analyzer" -> [action |-> "put_task", task |-> "txt_anlz"]
          [] n = "justmagic_aquarelle" -> [action |-> "put_task", task |-> "aqua"]
          [] n = "justmagic_aquarelle_generator" ->
                [action |-> "put_task", task |-> "aqua_gen"]
          [] n = "justmagic_wordstat_frequency" ->
                [action |-> "put_task", task |-> "wsfreq"]
          [] n = "justmagic_suggestions_parser" ->
                [action |-> "put_task", task |-> "sug_par"]
          [] n = "justmagic_thematic_classifier" ->
                [action |-> "put_task", task |-> "temakl"]
          [] n = "justmagic_markers_online" -> [action |-> "put_task", task |-> "mark_onl"]
          [] n = "justmagic_expand_semantics" ->
                [action |-> "put_task", task |-> "grp_deep"]
          [] n = "justmagic_regex_search" -> [action |-> "put_task", task |-> "rexp"]]

\* C21: the catalog holds exactly 14 tools with pairwise distinct names, the
\* names the executor dispatches are the catalog's names, every catalog tool
\* given its required arguments reaches its own branch (it posts its own
\* request and never yields unknown_tool), and a name outside the catalog
\* posts nothing.
C21_CatalogIsDispatched ==
    /\ Len(TOOLS_DEFINITIONS) = 14
    /\ Cardinality(CatalogNames) = 14
    /\ CatalogNames = Dispatched
    /\ (call.via = "execute" /\ outcome.raised # "not run") =>
          IF call.name \in CatalogNames
          THEN (/\ Required(call.name) \subseteq DOMAIN call.args
                /\ ~KeyErrorIn(call.name, call.args)) =>
                  /\ Len(outcome.requests) = 1
                  /\ Sent.action = OwnRequest[call.name].action
                  /\ ("task" \in DOMAIN Sent) = (OwnRequest[call.name].task # "")
                  /\ "task" \in DOMAIN Sent => Sent.task = OwnRequest[call.name].task
                  /\ outcome.raised = "none" =>
                        ErrKind(outcome.result) # "unknown_tool"
          ELSE outcome.requests = <<>>

C21_Witness ==
    /\ Executed("justmagic_regex_search")
    /\ DOMAIN call.args = {"pattern"}
    /\ Sent.action = "put_task"
    /\ Sent.task = "rexp"
    /\ ErrKind(outcome.result) = "none"

\* how many times the executor has been called for the tool_use block `id`
TimesExecuted(cs, id) == Cardinality({i \in 1..Len(cs) : cs[i].id = id})

\* nothing is executed twice, and no execution posts more than one request
NeverResent ==
    \A i \in 1..Len(calls) :
        /\ calls[i].requests <= 1
        /\ TimesExecuted(calls, calls[i].id) = 1

\* C22: every tool invocation of a model turn is executed exactly once (when
\* the run leaves the tool phase of that turn, each of the turn's tool_use
\* blocks has been given to the executor once), no invocation is executed
\* twice, and an execution posts at most one request.
C22_EachInvocationOnce ==
    /\ []NeverResent
    /\ [][\A r \in Runs :
            (pc[r] = "ExecutingTools" /\ pc'[r] # "ExecutingTools") =>
                \A i \in 1..Len(tool_uses[r]) :
                    TimesExecuted(calls', tool_uses[r][i].id) = 1]_vars

\* the last turn of a non-empty list of turns, and the ids a turn's blocks
\* of one type carry
LastTurn(list) == list[Len(list)]
BlocksOf(turn, type) == SelectSeq(turn.content, LAMBDA b : b.type = type)
InvocationIds(turn) ==
    [i \in 1..Len(BlocksOf(turn, "tool_use")) |-> BlocksOf(turn, "tool_use")[i].id]
ResultIds(turn) ==
    [i \in 1..Len(BlocksOf(turn, "tool_result")) |->
        BlocksOf(turn, "tool_result")[i].tool_use_id]
TextOf(turn) ==
    Join("", [i \in 1..Len(BlocksOf(turn, "text")) |-> BlocksOf(turn, "text")[i].text])

\* Where a run stands against the turns it has appended so far: it waits for
\* the model only with its user turn appended first and, after a tool phase,
\* with the one turn of results for all invocations of the assistant turn
\* before it appended last; it executes tools only with their assistant turn
\* appended last, the results so far being those of the first invocations.
StepsInOrder(r) ==
    LET mine == run_log[r].mine IN
    /\ pc[r] = "AwaitingModel" =>
          /\ mine # <<>>
          /\ mine[1] = UserTurn("message " \o ToString(r))
          /\ LastTurn(mine).role = "user"
          /\ Len(mine) > 1 =>
                /\ Len(mine) >= 3
                /\ mine[Len(mine) - 1].role = "assistant"
                /\ InvocationIds(mine[Len(mine) - 1]) # <<>>
                /\ Len(LastTurn(mine).content) = Len(InvocationIds(mine[Len(mine) - 1]))
                /\ ResultIds(LastTurn(mine)) = InvocationIds(mine[Len(mine) - 1])
    /\ pc[r] = "ExecutingTools" =>
          /\ Len(mine) >= 2
          /\ LastTurn(mine).role = "assistant"
          /\ tool_uses[r] # <<>>
          /\ BlocksOf(LastTurn(mine), "tool_use") = tool_uses[r]
          /\ Len(tool_results[r]) <= Len(tool_uses[r])
          /\ \A i \in 1..Len(tool_results[r]) :
                tool_results[r][i].tool_use_id = tool_uses[r][i].id

\* C23: the steps of a run occur in order: the user turn is appended before
\* the first model call; the assistant turn of a tool-use turn is appended
\* before any of its tools is executed; the model is called again only after
\* the one tool-result turn for all invocations of the previous turn has been
\* appended; Done is entered only from a model turn without tool use, which
\* is then appended, and the response text is its text blocks joined in order.
C23_StepsInOrder ==
    /\ [](\A r \in Runs : StepsInOrder(r))
    /\ [][/\ calls' # calls =>
              \E r \in Runs :
                  /\ pc[r] = "ExecutingTools"
                  /\ LastTurn(run_log[r].mine).role = "assistant"
                  /\ LastTurn(calls').id \in Range(InvocationIds(LastTurn(run_log[r].mine)))
          /\ \A r \in Runs :
              /\ (pc'[r] = "AwaitingModel" /\ pc[r] # "AwaitingModel") =>
                    \/ pc[r] = "idle"
                    \/ /\ pc[r] = "ExecutingTools"
                       /\ Len(tool_results[r]) = Len(tool_uses[r])
                       /\ run_log'[r].mine =
                             Append(run_log[r].mine, ToolResultTurn(tool_results[r]))
              /\ (pc'[r] = "ExecutingTools" /\ pc[r] # "ExecutingTools") =>
                    pc[r] = "AwaitingModel"
              /\ (pc'[r] = "Done" /\ pc[r] # "Done") =>
                    /\ pc[r] = "AwaitingModel"
                    /\ appended'[conv_id[r]] # <<>>
                    /\ LET turn == LastTurn(appended'[conv_id[r]]) IN
                          /\ appended'[conv_id[r]] = Append(appended[conv_id[r]], turn)
                          /\ turn.role = "assistant"
                          /\ BlocksOf(turn, "tool_use") = <<>>
                          /\ Len(BlocksOf(turn, "text")) >= 2
                          /\ reply'[r].response = TextOf(turn)]_vars

\* a run is Done after a tool phase: both orders of steps have happened
C23_Witness ==
    \E r \in Runs :
        /\ pc[r] = "Done"
        /\ reply[r].response = "task 7"
        /\ "tool_calls" \in DOMAIN reply[r]
        /\ Len(appended[conv_id[r]]) >= 4
        /\ \E i \in 1..Len(calls) : calls[i].requests = 1

\* Every assistant turn of the list that holds tool_use blocks is followed at
\* once by a turn with one tool_result block per invocation id, and every
\* turn that holds tool_result blocks follows at once the assistant turn
\* that holds their invocations.
WellPaired(list) ==
    \A i \in 1..Len(list) :
        /\ (list[i].role = "assistant" /\ InvocationIds(list[i]) # <<>>) =>
              /\ i < Len(list)
              /\ list[i + 1].role = "user"
              /\ ResultIds(list[i + 1]) = InvocationIds(list[i])
        /\ ResultIds(list[i]) # <<>> =>
              /\ i > 1
              /\ list[i - 1].role = "assistant"
              /\ InvocationIds(list[i - 1]) = ResultIds(list[i])

\* C24: every history a run sends to the model (the list it holds when it
\* calls the model), after any sequence of runs on the conversation, is well
\* paired.
C24_SentHistoriesWellPaired ==
    \A r \in Runs : pc[r] = "AwaitingModel" => WellPaired(heap[history[r]])

\* the tool_use blocks of the assistant turns of a list of turns, in order
RECURSIVE InvocationsOf(_)
InvocationsOf(list) ==
    IF list = <<>> THEN <<>>
    ELSE (IF list[1].role = "assistant" THEN BlocksOf(list[1], "tool_use") ELSE <<>>)
         \o InvocationsOf(Tail(list))

=============================================================================
